---- MODULE Spec2Model ----
(***************************************************************************)
(* pdd.py: removal of duplicate packets from a pcap with a sliding window  *)
(* of recently written packets.  The model follows deduplicate_pcap line   *)
(* by line (one action per statement), together with found_dup and the     *)
(* part of the __main__ block that hands the command line to it.           *)
(***************************************************************************)
EXTENDS Integers, Sequences, FiniteSets, TLC

(* ------------------------------ bounds -------------------------------- *)

\* longest capture (number of records in the source) that is explored
MaxLen == 4

\* largest --window_size that is explored
MaxWindow == 2

(* --------------------------- input domains ---------------------------- *)

\* Length of the header dpkt.ethernet.Ethernet unpacks; a shorter buffer
\* makes the constructor called at pdd.py:55 raise dpkt.NeedData.
ETH_HDR_LEN == 14

\* Two well-formed frames and one buffer shorter than an Ethernet header.
PktA == [n \in 1..ETH_HDR_LEN |-> 0]
PktB == [n \in 1..ETH_HDR_LEN |-> 1]
PktShort == <<0>>

Payloads == {PktA, PktB, PktShort}

\* capture timestamps; the reader imposes no order on them
Timestamps == {1, 2}

\* one record of the pcap reader: it yields (ts, pkt) pairs
Records == [ts : Timestamps, pkt : Payloads]

RECURSIVE SeqsUpTo(_, _)
SeqsUpTo(S, n) ==
    IF n = 0 THEN {<<>>}
    ELSE LET shorter == SeqsUpTo(S, n - 1)
         IN  shorter \cup {Append(s, x) : s \in {t \in shorter : Len(t) = n - 1}, x \in S}

\* argparse type=int accepts every integer, negative ones included
WindowSizes == (0 - 1)..MaxWindow

\* -v is counted: absent, -v, -vv
Verbosities == {0, 1, 2}

(* ------------------------------- state -------------------------------- *)

VARIABLES
    pcap,            \* the records the reader yields, in order
    pos,             \* how many records the reader's iterator has yielded
    window_size,     \* args.window_size
    verbosity,       \* args.verbosity
    sliding_window,  \* deque of (pkt, ts); index 1 is the left end
    tot_count,
    pkt_count,
    dup_count,
    outfile,         \* what outfile.writepkt has been given, in call order
    stderr,          \* lines printed to sys.stderr
    ts,              \* loop variables of the outer for
    pkt,
    scan,            \* position of the inner for's iterator in the deque
    stored_pkt,      \* loop variables of the inner for
    stored_ts,
    verdict,         \* history: branch taken for each record, in order
    exc,             \* the uncaught exception, if any
    pc               \* the statement about to run

vars == <<pcap, pos, window_size, verbosity, sliding_window, tot_count,
          pkt_count, dup_count, outfile, stderr, ts, pkt, scan, stored_pkt,
          stored_ts, verdict, exc, pc>>

args == <<pcap, window_size, verbosity>>
counters == <<tot_count, pkt_count, dup_count>>
loopvars == <<ts, pkt, scan, stored_pkt, stored_ts>>

\* value of a Python name that has not been bound yet
Unbound == <<>>
NoTs == 0

(* ------------------------------ helpers ------------------------------- *)

\* dpkt.ethernet.Ethernet(pkt) returns only for a buffer that holds a header
EthernetDecodes(p) == Len(p) >= ETH_HDR_LEN

\* the message found_dup prints for the verbosity given, if any
DupMessage(p, t1, t2, v) ==
    IF v >= 2
    THEN <<[kind |-> "dup", len |-> Len(p), t1 |-> t1, t2 |-> t2, eth |-> p]>>
    ELSE IF v = 1
    THEN <<[kind |-> "dup", len |-> Len(p), t1 |-> t1, t2 |-> t2]>>
    ELSE <<>>

\* mutant: the scan stops one item early
ScanExhaustedEarly(w, s) == s >= Len(w)

\* the inner for's iterator is exhausted once it has passed the last item
ScanExhausted(w, s) == s > Len(w)

\* mutant: the timestamp handed on is that of the leftmost item, whichever
\* item is being compared
ItemHeadTs(w, s) == [pkt |-> w[s].pkt, ts |-> w[1].ts]

\* the item the inner for's iterator yields: the deque is walked from the left
Item(w, s) == w[s]

\* mutant: a record also matches when the record after it in the source has
\* the same bytes
MatchLookahead(p, sp) ==
    \/ p = sp
    \/ pos < Len(pcap) /\ pcap[pos + 1].pkt = p

\* pkt == stored_pkt: equality of the two byte strings
Match(p, sp) == p = sp

\* mutant: the deque is popped only once it has outgrown the window
WindowOverfull(w, n) == Len(w) > n

\* len(sliding_window) >= window_size
WindowFull(w, n) == Len(w) >= n

\* mutant: the writer puts the record in front of the earlier ones
WritePktFront(f, p, t) == <<[pkt |-> p, ts |-> t]>> \o f

\* outfile.writepkt(pkt, ts): the writer appends the record
WritePkt(f, p, t) == Append(f, [pkt |-> p, ts |-> t])

\* mutant: the item dropped is the leftmost one
PopNewest(w) == SubSeq(w, 2, Len(w))

\* deque.pop(): drop the rightmost item
Pop(w) == SubSeq(w, 1, Len(w) - 1)

\* deque.appendleft(x)
AppendLeft(w, x) == <<x>> \o w

(* ------------------------------- Init --------------------------------- *)

Init ==
    /\ pcap \in SeqsUpTo(Records, MaxLen)
    /\ pos = 0
    /\ window_size \in WindowSizes
    /\ verbosity \in Verbosities
    /\ sliding_window = <<>>
    /\ tot_count = 0
    /\ pkt_count = 0
    /\ dup_count = 0
    /\ outfile = <<>>
    /\ stderr = <<>>
    /\ ts = NoTs
    /\ pkt = Unbound
    /\ scan = 0
    /\ stored_pkt = Unbound
    /\ stored_ts = NoTs
    /\ verdict = <<>>
    /\ exc = "none"
    /\ pc = "main"

(* ------------------------------ actions ------------------------------- *)

\* pdd.py:98-99 and 23-26: announce the window, enter deduplicate_pcap
Main ==
    /\ pc = "main"
    /\ stderr' = Append(stderr, [kind |-> "using", window |-> window_size])
    /\ pc' = "for"
    /\ UNCHANGED <<args, pos, sliding_window, counters, outfile, loopvars,
                   verdict, exc>>

\* mutant: the loop is left one record before the reader is exhausted
ForStopsEarly ==
    /\ pc = "for"
    /\ IF pos + 1 < Len(pcap)
       THEN /\ pos' = pos + 1
            /\ ts' = pcap[pos + 1].ts
            /\ pkt' = pcap[pos + 1].pkt
            /\ tot_count' = tot_count + 1
            /\ scan' = 1
            /\ pc' = "scan"
       ELSE /\ pc' = "summary"
            /\ UNCHANGED <<pos, ts, pkt, tot_count, scan>>
    /\ UNCHANGED <<args, sliding_window, pkt_count, dup_count, outfile,
                   stderr, stored_pkt, stored_ts, verdict, exc>>

\* pdd.py:28-29: take the next record, or leave the loop when there is none
For ==
    /\ pc = "for"
    /\ IF pos < Len(pcap)
       THEN /\ pos' = pos + 1
            /\ ts' = pcap[pos + 1].ts
            /\ pkt' = pcap[pos + 1].pkt
            /\ tot_count' = tot_count + 1
            /\ scan' = 1
            /\ pc' = "scan"
       ELSE /\ pc' = "summary"
            /\ UNCHANGED <<pos, ts, pkt, tot_count, scan>>
    /\ UNCHANGED <<args, sliding_window, pkt_count, dup_count, outfile,
                   stderr, stored_pkt, stored_ts, verdict, exc>>

\* pdd.py:30-31 and 35: one step of the inner for, left to right
Scan ==
    /\ pc = "scan"
    /\ IF ScanExhausted(sliding_window, scan)
       THEN \* iterator exhausted without break: the else clause runs
            /\ verdict' = Append(verdict, "unique")
            /\ pc' = "write"
            /\ UNCHANGED <<scan, stored_pkt, stored_ts>>
       ELSE /\ stored_pkt' = Item(sliding_window, scan).pkt
            /\ stored_ts' = Item(sliding_window, scan).ts
            /\ IF Match(pkt, Item(sliding_window, scan).pkt)
               THEN /\ verdict' = Append(verdict, "duplicate")
                    /\ pc' = "dup"
                    /\ UNCHANGED scan
               ELSE /\ scan' = scan + 1
                    /\ UNCHANGED <<verdict, pc>>
    /\ UNCHANGED <<args, pos, sliding_window, counters, outfile, stderr, ts,
                   pkt, exc>>

\* mutant: the duplicate is counted as written
DupAsWritten ==
    /\ pc = "dup"
    /\ pkt_count' = pkt_count + 1
    /\ pc' = "report"
    /\ UNCHANGED <<args, pos, sliding_window, tot_count, dup_count, outfile,
                   stderr, loopvars, verdict, exc>>

\* mutant: a match moves the matched entry to the left end with the new
\* timestamp
DupRefresh ==
    /\ pc = "dup"
    /\ dup_count' = dup_count + 1
    /\ sliding_window' =
           <<[pkt |-> pkt, ts |-> ts]>> \o
           SubSeq(sliding_window, 1, scan - 1) \o
           SubSeq(sliding_window, scan + 1, Len(sliding_window))
    /\ pc' = "report"
    /\ UNCHANGED <<args, pos, tot_count, pkt_count, outfile, stderr, loopvars,
                   verdict, exc>>

\* pdd.py:32
Dup ==
    /\ pc = "dup"
    /\ dup_count' = dup_count + 1
    /\ pc' = "report"
    /\ UNCHANGED <<args, pos, sliding_window, tot_count, pkt_count, outfile,
                   stderr, loopvars, verdict, exc>>

\* pdd.py:33-34 and 45-61: found_dup decodes the frame whatever the
\* verbosity, then prints; an exception of the decoder is not caught
Report ==
    /\ pc = "report"
    /\ IF EthernetDecodes(pkt)
       THEN /\ stderr' = stderr \o DupMessage(pkt, ts, stored_ts, verbosity)
            /\ pc' = "for"
            /\ UNCHANGED exc
       ELSE /\ exc' = "NeedData"
            /\ pc' = "raised"
            /\ UNCHANGED stderr
    /\ UNCHANGED <<args, pos, sliding_window, counters, outfile, loopvars,
                   verdict>>

\* pdd.py:36
Write ==
    /\ pc = "write"
    /\ outfile' = WritePkt(outfile, pkt, ts)
    /\ pc' = "count"
    /\ UNCHANGED <<args, pos, sliding_window, counters, stderr, loopvars,
                   verdict, exc>>

\* pdd.py:37
Count ==
    /\ pc = "count"
    /\ pkt_count' = pkt_count + 1
    /\ pc' = "evict"
    /\ UNCHANGED <<args, pos, sliding_window, tot_count, dup_count, outfile,
                   stderr, loopvars, verdict, exc>>

\* pdd.py:38-40: pop() of an empty deque raises IndexError
Evict ==
    /\ pc = "evict"
    /\ IF WindowFull(sliding_window, window_size)
       THEN IF Len(sliding_window) = 0
            THEN /\ exc' = "IndexError"
                 /\ pc' = "raised"
                 /\ UNCHANGED sliding_window
            ELSE /\ sliding_window' = Pop(sliding_window)
                 /\ pc' = "insert"
                 /\ UNCHANGED exc
       ELSE /\ pc' = "insert"
            /\ UNCHANGED <<sliding_window, exc>>
    /\ UNCHANGED <<args, pos, counters, outfile, stderr, loopvars, verdict>>

\* pdd.py:42
Insert ==
    /\ pc = "insert"
    /\ sliding_window' = AppendLeft(sliding_window, [pkt |-> pkt, ts |-> ts])
    /\ pc' = "for"
    /\ UNCHANGED <<args, pos, counters, outfile, stderr, loopvars, verdict,
                   exc>>

\* pdd.py:43
Summary ==
    /\ pc = "summary"
    /\ stderr' = Append(stderr, [kind |-> "summary", total |-> tot_count,
                                 wrote |-> pkt_count, dups |-> dup_count])
    /\ pc' = "close"
    /\ UNCHANGED <<args, pos, sliding_window, counters, outfile, loopvars,
                   verdict, exc>>

\* pdd.py:100-101
Close ==
    /\ pc = "close"
    /\ pc' = "done"
    /\ UNCHANGED <<args, pos, sliding_window, counters, outfile, stderr,
                   loopvars, verdict, exc>>

Next ==
    \/ Main
    \/ For
    \/ Scan
    \/ Dup
    \/ Report
    \/ Write
    \/ Count
    \/ Evict
    \/ Insert
    \/ Summary
    \/ Close

Spec == Init /\ [][Next]_vars

\* mutant: the failure of the write is swallowed and the loop goes on with
\* the next record
WriteFailsSkipped ==
    /\ pc = "write"
    /\ exc' = "IOError"
    /\ pc' = "for"
    /\ UNCHANGED <<args, pos, sliding_window, counters, outfile, stderr,
                   loopvars, verdict>>

\* pdd.py:36 when the sink fails (disk full, closed file): writepkt raises,
\* nothing in pdd.py catches it, lines 37-43 do not run
WriteFails ==
    /\ pc = "write"
    /\ exc' = "IOError"
    /\ pc' = "raised"
    /\ UNCHANGED <<args, pos, sliding_window, counters, outfile, stderr,
                   loopvars, verdict>>

\* the runs in which any write to the sink may fail
SinkFailSpec == Init /\ [][Next \/ WriteFails]_vars

\* three more well-formed frames
PktC == [n \in 1..ETH_HDR_LEN |-> 2]
PktD == [n \in 1..ETH_HDR_LEN |-> 3]
PktE == [n \in 1..ETH_HDR_LEN |-> 4]

\* a capture of twelve frames of five kinds, all with the same timestamp
SweepSource ==
    [n \in 1..12 |->
        [ts |-> 1,
         pkt |-> <<PktA, PktB, PktC, PktD, PktA, PktB, PktE,
                   PktA, PktB, PktC, PktD, PktE>>[n]]]

\* the window sizes from 1 to two beyond the largest of the other runs
WideWindows == 1..(MaxWindow + 2)

\* The runs with -vv over the bounded captures and the twelve-frame one,
\* with the wider range of positive window sizes.
InitWide ==
    /\ pcap \in SeqsUpTo(Records, MaxLen) \cup {SweepSource}
    /\ pos = 0
    /\ window_size \in WideWindows
    /\ verbosity = 2
    /\ sliding_window = <<>>
    /\ tot_count = 0
    /\ pkt_count = 0
    /\ dup_count = 0
    /\ outfile = <<>>
    /\ stderr = <<>>
    /\ ts = NoTs
    /\ pkt = Unbound
    /\ scan = 0
    /\ stored_pkt = Unbound
    /\ stored_ts = NoTs
    /\ verdict = <<>>
    /\ exc = "none"
    /\ pc = "main"

WideSpec == InitWide /\ [][Next]_vars

\* The runs with -vv, where found_dup executes every one of its statements;
\* no branch of the loop reads the verbosity.
InitVerbose == Init /\ verbosity = 2

\* The interpreter runs the one thread of the script until it returns or an
\* exception ends it: a statement that can run does run.
FairSpec == InitVerbose /\ [][Next]_vars /\ WF_vars(Next)

(* ---------------------- the loop, one record at a time ---------------- *)

\* deduplicate_pcap before its first iteration (pdd.py:23-26)
RunInit ==
    [window |-> <<>>, out |-> <<>>, tot |-> 0, wrote |-> 0, dups |-> 0,
     verdicts |-> <<>>, exc |-> "none"]

\* One whole iteration of the outer for (pdd.py:28-42) on record rec with
\* window size n, from the state r between two iterations; an exception
\* ends the run, so a run that has raised takes no further record.
RunStep(r, rec, n) ==
    IF r.exc # "none" THEN r
    ELSE IF \E m \in DOMAIN r.window : r.window[m].pkt = rec.pkt
    THEN [r EXCEPT !.tot = @ + 1,
                   !.dups = @ + 1,
                   !.verdicts = Append(@, "duplicate"),
                   !.exc = IF Len(rec.pkt) >= ETH_HDR_LEN
                           THEN "none" ELSE "NeedData"]
    ELSE LET w == [r EXCEPT !.tot = @ + 1,
                            !.out = Append(@, [pkt |-> rec.pkt, ts |-> rec.ts]),
                            !.wrote = @ + 1,
                            !.verdicts = Append(@, "unique")]
             new == <<[pkt |-> rec.pkt, ts |-> rec.ts]>>
         IN  IF Len(r.window) >= n
             THEN IF r.window = <<>>
                  THEN [w EXCEPT !.exc = "IndexError"]
                  ELSE [w EXCEPT !.window =
                           new \o SubSeq(r.window, 1, Len(r.window) - 1)]
             ELSE [w EXCEPT !.window = new \o r.window]

\* deduplicate_pcap run over the whole of the source src with window size n
RECURSIVE Run(_, _)
Run(src, n) ==
    IF src = <<>> THEN RunInit
    ELSE RunStep(Run(SubSeq(src, 1, Len(src) - 1), n), src[Len(src)], n)

(* ------------------------- auxiliary operators ------------------------ *)

\* the payloads the window holds
WindowPayloads == {sliding_window[n].pkt : n \in DOMAIN sliding_window}

\* the branch taken for the record examined last
LastVerdict == verdict[Len(verdict)]

\* the first n source records restricted to those judged unique, in order
RECURSIVE Kept(_)
Kept(n) ==
    IF n = 0 THEN <<>>
    ELSE IF verdict[n] = "unique"
         THEN Append(Kept(n - 1), [pkt |-> pcap[n].pkt, ts |-> pcap[n].ts])
         ELSE Kept(n - 1)

\* how many records have been given the verdict v
CountOf(v) == Cardinality({n \in DOMAIN verdict : verdict[n] = v})

\* the run is between two iterations, or over
AtBoundary == pc \in {"for", "summary", "close", "done", "raised"}

(* ------------------------------- claims ------------------------------- *)

\* C1: a record is judged duplicate if and only if its payload equals the
\* payload of some entry the window holds when the record is examined, and
\* otherwise unique.  (From the verdict until the window is next touched
\* the window is the one the record was examined against.)
C1_Thm ==
    /\ pc \in {"dup", "report", "write", "count"} =>
          /\ Len(verdict) = tot_count
          /\ LastVerdict = "duplicate" <=> pkt \in WindowPayloads
          /\ LastVerdict = "unique" <=> pkt \notin WindowPayloads
          /\ pc \in {"dup", "report"} <=> LastVerdict = "duplicate"
    /\ AtBoundary => Len(verdict) = tot_count

C1_Witness ==
    /\ pc = "write"
    /\ Len(sliding_window) = 2
    /\ Len(verdict) = 4
    /\ verdict[3] = "duplicate"

\* C2: the sink holds, in source order, exactly the records judged unique,
\* each once: it is the source restricted to the unique verdicts (the record
\* about to be written at line 36 excepted).
C2_Thm ==
    /\ Len(verdict) <= Len(pcap)
    /\ outfile = IF pc = "write" THEN Kept(Len(verdict) - 1)
                                 ELSE Kept(Len(verdict))
    /\ pc \in {"done", "raised"} => outfile = Kept(tot_count)

C2_Witness ==
    /\ pc = "done"
    /\ Len(outfile) = 2
    /\ verdict = <<"unique", "duplicate", "unique", "duplicate">>
    /\ outfile[1].pkt # outfile[2].pkt

\* C3: with a non-negative window_size the window never holds more than
\* window_size entries, in any state of the run.
C3_Thm ==
    window_size >= 0 =>
        /\ Len(sliding_window) >= 0
        /\ Len(sliding_window) <= window_size

C3_Witness ==
    /\ window_size = 2
    /\ pc = "insert"
    /\ Len(sliding_window) = 1
    /\ pkt_count = 3

\* C4: with window_size = 0 the run completes, the window stays empty,
\* every record is judged unique and written, and the summary reports
\* written = total and duplicate = 0.
C4_Claim ==
    window_size = 0 =>
        /\ pc # "raised"
        /\ sliding_window = <<>>
        /\ dup_count = 0
        /\ \A n \in DOMAIN verdict : verdict[n] = "unique"
        /\ pc = "done" =>
              /\ tot_count = Len(pcap)
              /\ pkt_count = tot_count
              /\ Len(outfile) = Len(pcap)

\* C5: state part.  Between iterations and at the end each record examined
\* has been counted in total and in exactly one of written and duplicate;
\* inside an iteration the record in hand is the only one not yet counted;
\* at the summary line total = written + duplicate = the number of records
\* of the source, and that is what the line reports.
C5_Counted ==
    /\ AtBoundary =>
          /\ tot_count = Len(verdict)
          /\ pkt_count = CountOf("unique")
          /\ dup_count = CountOf("duplicate")
          /\ tot_count = pkt_count + dup_count
    /\ tot_count - (pkt_count + dup_count) \in {0, 1}
    /\ pc \in {"summary", "close", "done"} =>
          /\ tot_count = Len(pcap)
          /\ tot_count = pkt_count + dup_count
    /\ pc \in {"close", "done"} =>
          /\ stderr[Len(stderr)].kind = "summary"
          /\ stderr[Len(stderr)].total = Len(pcap)
          /\ stderr[Len(stderr)].total =
                stderr[Len(stderr)].wrote + stderr[Len(stderr)].dups

\* C5: step part.  No counter ever decreases, and no step changes more
\* than one of them or changes one by more than one.
C5_Monotone ==
    /\ tot_count' \in {tot_count, tot_count + 1}
    /\ pkt_count' \in {pkt_count, pkt_count + 1}
    /\ dup_count' \in {dup_count, dup_count + 1}
    /\ (tot_count' + pkt_count' + dup_count') -
       (tot_count + pkt_count + dup_count) \in {0, 1}

\* C5: counter conservation: the counters never decrease, every processed
\* record increments total and exactly one of written or duplicate, and at
\* completion total = written + duplicate = number of source records.
C5_Thm == [][C5_Monotone /\ C5_Counted /\ C5_Counted']_vars

C5_Witness ==
    /\ pc = "done"
    /\ tot_count = 4
    /\ pkt_count = 2
    /\ dup_count = 2

\* the number of records judged unique strictly between source positions j and k
UniqueBetween(j, k) ==
    Cardinality({m \in (j + 1)..(k - 1) : verdict[m] = "unique"})

\* record j was inserted, its payload is that of record k, it was not
\* inserted again before k, and at least window_size records were inserted
\* in between
Evicted(j, k) ==
    /\ j < k
    /\ pcap[j].pkt = pcap[k].pkt
    /\ verdict[j] = "unique"
    /\ \A m \in (j + 1)..(k - 1) :
          ~(pcap[m].pkt = pcap[k].pkt /\ verdict[m] = "unique")
    /\ UniqueBetween(j, k) >= window_size

\* C6: with window_size = N >= 1, a record whose payload was last inserted
\* N or more insertions ago is judged unique.
C6_Thm ==
    window_size >= 1 =>
        \A k \in DOMAIN verdict : \A j \in 1..(k - 1) :
            Evicted(j, k) => verdict[k] = "unique"

C6_Witness ==
    /\ window_size = 2
    /\ pc = "done"
    /\ Len(verdict) = 4
    /\ Evicted(1, 4)
    /\ verdict[4] = "unique"

\* C7: a negative window_size is rejected before the run starts:
\* deduplicate_pcap is not entered, and no record is read or written.
C7_Claim ==
    window_size < 0 =>
        /\ pc = "main"
        /\ pos = 0
        /\ outfile = <<>>

\* C8: the call of found_dup returns to the loop whether or not it
\* succeeds, at any verbosity, leaving counters, window and sink as a
\* reporter that does nothing would.
C8_Claim ==
    [][pc = "report" =>
          /\ pc' = "for"
          /\ UNCHANGED <<counters, sliding_window, outfile>>]_vars

\* the leftmost (most recently inserted) window entry whose payload is p
FirstMatch(p) ==
    CHOOSE n \in DOMAIN sliding_window :
        /\ sliding_window[n].pkt = p
        /\ \A m \in 1..(n - 1) : sliding_window[m].pkt # p

\* the last source record before position k that has payload p and was
\* judged unique, that is, the most recent insertion of p
LastInserted(p, k) ==
    CHOOSE j \in 1..(k - 1) :
        /\ pcap[j].pkt = p
        /\ verdict[j] = "unique"
        /\ \A m \in (j + 1)..(k - 1) :
              ~(pcap[m].pkt = p /\ verdict[m] = "unique")

\* C9: the timestamp handed to found_dup for a duplicate is the one stored
\* with the most recently inserted window entry of that payload: the first
\* match met from the left end, which is the latest insertion of the payload.
C9_Thm ==
    pc \in {"dup", "report"} =>
        /\ \E n \in DOMAIN sliding_window : sliding_window[n].pkt = pkt
        /\ scan = FirstMatch(pkt)
        /\ stored_ts = sliding_window[FirstMatch(pkt)].ts
        /\ \E j \in 1..(pos - 1) : pcap[j].pkt = pkt /\ verdict[j] = "unique"
        /\ stored_ts = pcap[LastInserted(pkt, pos)].ts

C9_Witness ==
    /\ pc = "report"
    /\ scan = 2
    /\ stored_ts # sliding_window[1].ts
    /\ stored_ts # ts

\* C10: from the verdict "duplicate" to the end of the iteration (and while
\* the window is being scanned) the window, the sink and the written
\* counter do not change; the iteration raises total by one when it takes
\* the record and duplicate by one at line 32, and nothing else.
C10_Thm ==
    [][/\ pc \in {"scan", "dup", "report"} =>
             UNCHANGED <<sliding_window, outfile, pkt_count, tot_count>>
       /\ pc \in {"scan", "report"} => UNCHANGED dup_count
       /\ pc = "dup" => dup_count' = dup_count + 1
       /\ pc = "for" =>
             /\ UNCHANGED <<sliding_window, outfile, pkt_count, dup_count>>
             /\ pc' = "scan" => tot_count' = tot_count + 1
       /\ pc = "dup" => pc' = "report"
       /\ pc = "report" => pc' \in {"for", "raised"}]_vars

C10_Witness ==
    /\ pc = "for"
    /\ Len(verdict) > 0
    /\ LastVerdict = "duplicate"
    /\ Len(sliding_window) = 2
    /\ sliding_window[2].pkt = pkt
    /\ sliding_window[2].ts # ts

\* the summary lines printed so far
SummaryLines == {n \in DOMAIN stderr : stderr[n].kind = "summary"}

\* C11: state part.  The k-th iteration works on the k-th source record,
\* the summary is printed once, after the last record and not before, and
\* at the end there has been one iteration per source record.
C11_OnePass ==
    /\ tot_count = pos
    /\ pos <= Len(pcap)
    /\ pc \in {"scan", "dup", "report", "write", "count", "evict", "insert"} =>
          /\ pos >= 1
          /\ pkt = pcap[pos].pkt
          /\ ts = pcap[pos].ts
          /\ Len(verdict) \in {pos - 1, pos}
    /\ Cardinality(SummaryLines) = IF pc \in {"close", "done"} THEN 1 ELSE 0
    /\ pc \in {"summary", "close", "done"} =>
          /\ pos = Len(pcap)
          /\ Len(verdict) = Len(pcap)

\* C11: with window_size >= 1 the run without failures (the sink never
\* fails in this specification; the reporter fails only by raising
\* NeedData) reaches the end, having made one iteration per source record
\* and printed the summary once.
C11_Thm ==
    /\ []C11_OnePass
    /\ [][pos' \in {pos, pos + 1}]_vars
    /\ window_size >= 1 => <>(pc = "done" \/ exc = "NeedData")

C11_Witness ==
    /\ pc = "done"
    /\ window_size = 2
    /\ Len(pcap) = 4
    /\ tot_count = 4
    /\ dup_count = 1
    /\ Cardinality(SummaryLines) = 1

\* the smaller of two numbers
Min(a, b) == IF a <= b THEN a ELSE b

\* the last n records given to the sink, the latest first
LastWritten(n) == [m \in 1..n |-> outfile[Len(outfile) + 1 - m]]

\* C12: with window_size = N >= 1, after each iteration the window read
\* from the left is the last min(N, written) records of the sink, latest
\* first; between eviction and insertion it is that sequence without its
\* head, so eviction has removed the oldest entry and moved nothing.
C12_Thm ==
    window_size >= 1 =>
        /\ AtBoundary =>
              /\ Len(outfile) = pkt_count
              /\ sliding_window = LastWritten(Min(window_size, pkt_count))
        /\ pc = "insert" =>
              /\ Len(outfile) = pkt_count
              /\ sliding_window =
                    Tail(LastWritten(Min(window_size, pkt_count)))

C12_Witness ==
    /\ window_size = 2
    /\ pc = "for"
    /\ pkt_count = 3
    /\ dup_count = 1
    /\ sliding_window = <<outfile[3], outfile[2]>>

\* what the run has produced so far, in the shape Run gives it
Progress ==
    [window |-> sliding_window, out |-> outfile, tot |-> tot_count,
     wrote |-> pkt_count, dups |-> dup_count, verdicts |-> verdict,
     exc |-> exc]

\* C13: once the first k records have been processed, the sink, the window
\* and the counters are those of a complete run over the first k records
\* alone; a run that an exception has ended at record k is the complete run
\* over any longer prefix too.  No decision depends on a later record.
C13_Thm ==
    /\ AtBoundary => Progress = Run(SubSeq(pcap, 1, pos), window_size)
    /\ pc \in {"done", "raised"} =>
          \A k \in pos..Len(pcap) :
              Progress = Run(SubSeq(pcap, 1, k), window_size)

C13_Witness ==
    /\ pc = "for"
    /\ pos = 2
    /\ Len(pcap) = 4
    /\ dup_count = 1
    /\ pcap[3].pkt = pcap[2].pkt
    /\ Run(pcap, window_size) # Progress

\* the state a failed write leaves: the failing record was judged unique,
\* is not in the sink, not in the window and not counted as written, and
\* the sink holds the records written before it
C14_Failed ==
    exc = "IOError" =>
        /\ pc = "raised"
        /\ LastVerdict = "unique"
        /\ Len(verdict) = pos
        /\ outfile = Kept(pos - 1)
        /\ pkt_count = Len(outfile)
        /\ pkt \notin WindowPayloads
        /\ tot_count = pkt_count + dup_count + 1

\* C14: a failed write of a unique record ends the run at that record: the
\* step changes neither sink, window nor counters, and afterwards nothing
\* is read, compared, written or printed.
C14_Thm ==
    [][/\ C14_Failed'
       /\ exc' = "IOError" =>
             UNCHANGED <<pos, sliding_window, counters, outfile, stderr,
                         verdict>>
       /\ exc # "none" => UNCHANGED vars]_vars

C14_Witness ==
    /\ exc = "IOError"
    /\ pos = 3
    /\ Len(pcap) = 4
    /\ Len(outfile) = 1
    /\ dup_count = 1

\* C15: with window_size >= 1, a record whose payload is that of the source
\* record just before it is judged duplicate, so of a run of equal
\* consecutive records at most the first is written.
C15_Thm ==
    window_size >= 1 =>
        /\ \A n \in 2..Len(verdict) :
              pcap[n].pkt = pcap[n - 1].pkt => verdict[n] = "duplicate"
        /\ \A j \in DOMAIN verdict : \A k \in j..Len(verdict) :
              (\A m \in j..k : pcap[m].pkt = pcap[j].pkt) =>
                  Cardinality({m \in j..k : verdict[m] = "unique"}) <= 1

C15_Witness ==
    /\ window_size = 2
    /\ pc = "done"
    /\ Len(pcap) = 4
    /\ pcap[2].pkt # pcap[1].pkt
    /\ pcap[3].pkt = pcap[2].pkt
    /\ pcap[4].pkt = pcap[2].pkt
    /\ verdict = <<"unique", "unique", "duplicate", "duplicate">>

\* C17: the entries of the window have pairwise distinct payloads, in every
\* state.
C17_Thm ==
    \A m \in DOMAIN sliding_window : \A n \in DOMAIN sliding_window :
        sliding_window[m].pkt = sliding_window[n].pkt => m = n

C17_Witness ==
    /\ Len(sliding_window) = 2
    /\ pc = "dup"
    /\ sliding_window[1].ts = sliding_window[2].ts
    /\ pkt_count = 3

\* C18: with window_size = N >= 1, two records of the sink that are at most
\* N places apart have different payloads: any N + 1 consecutive records
\* of the sink are pairwise distinct.
C18_Thm ==
    window_size >= 1 =>
        \A m \in DOMAIN outfile : \A n \in DOMAIN outfile :
            (m < n /\ n - m <= window_size) =>
                outfile[m].pkt # outfile[n].pkt

C18_Witness ==
    /\ window_size = 2
    /\ Len(outfile) = 4
    /\ outfile[4].pkt = outfile[1].pkt

\* C16 as claimed, for two runs that both reach the summary: the run with
\* the larger window reports at least as many duplicates as the run over
\* the same source with any smaller window size w >= 1.
C16_Claim ==
    pc = "done" =>
        \A w \in 1..(window_size - 1) :
            Run(pcap, w).exc = "none" => dup_count >= Run(pcap, w).dups

\* the run with window size 1 over the records examined so far
RunOne == Run(SubSeq(pcap, 1, Len(verdict)), 1)

\* C16 amended: every record that the run with window size 1 judges
\* duplicate is judged duplicate by the run with a larger window that
\* examines it, so after the same number of records the larger window has
\* found at least as many duplicates as window size 1.
C16_Thm ==
    window_size >= 2 =>
        /\ \A n \in 1..Min(Len(verdict), Len(RunOne.verdicts)) :
              RunOne.verdicts[n] = "duplicate" => verdict[n] = "duplicate"
        /\ (AtBoundary /\ RunOne.tot = tot_count) =>
              dup_count >= RunOne.dups

C16_Witness ==
    /\ window_size = 2
    /\ pc = "done"
    /\ Len(pcap) = 4
    /\ Run(pcap, 1).exc = "none"
    /\ Run(pcap, 1).dups = 1
    /\ dup_count = 2

\* C19: with window_size >= 1, the sink of a completed run, run again with
\* the same window size, has no duplicate and is written out whole and in
\* order.
C19_Thm ==
    (window_size >= 1 /\ pc \in {"summary", "close", "done"}) =>
        /\ Run(outfile, window_size).exc = "none"
        /\ Run(outfile, window_size).tot = Len(outfile)
        /\ Run(outfile, window_size).dups = 0
        /\ Run(outfile, window_size).wrote = Len(outfile)
        /\ Run(outfile, window_size).out = outfile

C19_Witness ==
    /\ window_size = 1
    /\ pc = "done"
    /\ dup_count = 1
    /\ Len(outfile) = 3
    /\ outfile[1].pkt = outfile[3].pkt

====
